---- MODULE Spec2Model ----
(***************************************************************************)
(* Model of the Autodesk Construction Cloud forms dashboard: the forms     *)
(* fetcher and the authenticator (src/acc_forms_client.py, classes         *)
(* AutodeskFormsClient and AutodeskAuthenticator) and the web application  *)
(* with its background fetch cycle and CSV export (src/app.py).            *)
(*                                                                         *)
(* JSON values are encoded as records [t, s, l, d]: t is the Python type   *)
(* of the value ("null", "str", "list", "dict"), s the text of a string,   *)
(* l the elements of a list and d the key -> value mapping of a dict.      *)
(***************************************************************************)
EXTENDS Integers, Sequences, FiniteSets, TLC

VARIABLES
    call,        \* the method the caller invoked
    pc,          \* position of the running call
    templates,   \* get_all_forms: the list returned by get_form_templates
    ti,          \* get_all_forms: index in templates of the template being fetched
    tpl_forms,   \* get_forms_for_template: its local all_forms
    offset,      \* get_forms_for_template: its offset cursor
    all_forms,   \* get_all_forms: its local all_forms
    alt_forms,   \* get_all_forms: what try_alternative_forms_endpoint returned
    result,      \* the value returned to the caller
    requests,    \* every HTTP request issued so far, in order
    served,      \* what the server answered to each request, in order
    fetched,     \* get_all_forms: what each get_forms_for_template call returned
    p_body,      \* parsers: the response body under test
    p_L,         \* parsers: the list the body was built from
    p_shape,     \* parsers: how the body wraps that list
    p_out        \* parsers: what each parser extracted

VARIABLES
    collection   \* the forms a paging server holds for the template, and its wrapping

VARIABLES
    forms_data,  \* app.py: the global list of loaded forms
    csv_out      \* export_csv: the response it gave

VARIABLES
    authenticator, \* the AutodeskAuthenticator in use (app.py: the global)
    a_last,        \* the last call of a token method: response, outcome
    b_calls,       \* authenticate_browser: its calls, each with its listener
    b_elapsed      \* authenticate_browser: seconds waited by the running call

VARIABLES
    last_update,   \* app.py: global, when forms were last loaded
    is_loading,    \* app.py: global flag
    error_message, \* app.py: global, the last error
    threads,       \* the threads running load_forms_data_background
    env,           \* which environment variables are set
    status_out,    \* what /api/status answered, if it was asked last
    json_out,      \* what /api/load-data or /api/forms-data answered, if asked last
    handled,       \* the request handled last; n: auth requests handled so far
    wrote          \* which cycle wrote forms_data, error_message last (0: none)

csvVars == <<forms_data, csv_out>>
authVars == <<authenticator, a_last, b_calls, b_elapsed>>
appVars == <<last_update, is_loading, error_message, threads, env,
             status_out, json_out, handled, wrote>>

vars == <<call, pc, templates, ti, tpl_forms, offset, all_forms, alt_forms,
          result, requests, served, fetched, p_body, p_L, p_shape, p_out,
          collection, csvVars, authVars, appVars>>

fetchVars == <<templates, ti, tpl_forms, offset, all_forms, alt_forms,
               result, requests, served, fetched>>
parseVars == <<p_body, p_L, p_shape, p_out>>
fetcherVars == <<call, pc, fetchVars, parseVars, collection>>

\* the variables of app.py and of the authenticator, left alone by the fetcher
otherVars == <<csvVars, authVars, appVars>>

-----------------------------------------------------------------------------
(* Bounds of the model *)

\* longest list of templates the server returns
MaxTemplates == 2
\* longest page of forms the server returns to get_all_forms
MaxForms == 1
\* most page requests one get_forms_for_template call is followed through
MaxPages == 3
\* longest list wrapped into a body for the parsers
MaxLen == 2
\* longest list of forms handed to the CSV export
MaxCsvForms == 2
\* most calls of authenticate_browser in one process
MaxCalls == 2
\* most /auth/start and /auth/callback requests the application handles
MaxRequests == 3

-----------------------------------------------------------------------------
(* JSON values and the Python operations the client applies to them *)

None == [t |-> "null", s |-> "", l |-> <<>>, d |-> <<>>]
Str(x) == [t |-> "str", s |-> x, l |-> <<>>, d |-> <<>>]
List(q) == [t |-> "list", s |-> "", l |-> q, d |-> <<>>]
Dict(f) == [t |-> "dict", s |-> "", l |-> <<>>, d |-> f]
EmptyDict == Dict(<<>>)

isinstance_list(v) == v.t = "list"
isinstance_dict(v) == v.t = "dict"

\* Python truth value: None, "", [] and {} are false
truthy(v) ==
    CASE v.t = "null" -> FALSE
      [] v.t = "str"  -> v.s # ""
      [] v.t = "list" -> v.l # <<>>
      [] v.t = "dict" -> DOMAIN v.d # {}

\* v.get(k, default)
dict_get(v, k, default) == IF k \in DOMAIN v.d THEN v.d[k] ELSE default

\* v[k] = x
dict_set(v, k, x) == [v EXCEPT !.d = (k :> x) @@ v.d]

SeqsUpTo(S, n) == UNION {[1..k -> S] : k \in 0..n}

RECURSIVE Concat(_)
Concat(qq) == IF qq = <<>> THEN <<>> ELSE Head(qq) \o Concat(Tail(qq))

-----------------------------------------------------------------------------
(* HTTP responses *)

\* transport_ok: requests.get returned; json_ok: response.json() parses
Response(ok, status, json, body) ==
    [transport_ok |-> ok, status_code |-> status, json_ok |-> json, body |-> body]

OkResponse(body) == Response(TRUE, 200, TRUE, body)
NotFound == Response(TRUE, 404, TRUE, EmptyDict)
ServerError == Response(TRUE, 500, TRUE, EmptyDict)
TransportError == Response(FALSE, 0, FALSE, None)
BadJson == Response(TRUE, 200, FALSE, None)

\* response.raise_for_status(): HTTPError for 4xx and 5xx
raise_for_status(status_code) == status_code >= 400 /\ status_code < 600

\* the three tolerated wrappings of a list L
Wrap(shape, L) ==
    CASE shape = "bare"    -> List(L)
      [] shape = "results" -> Dict("results" :> List(L))
      [] shape = "data"    -> Dict("data" :> List(L))

Shapes == {"bare", "results", "data"}

-----------------------------------------------------------------------------
(* What a method hands back to its caller: a value, or an exception *)

Returned(v) == [raised |-> FALSE, value |-> v]
Raised == [raised |-> TRUE, value |-> <<>>]

\* outcome of a try block: the exception raised in it ("none" when it ran through)
Ran(v) == [exc |-> "none", value |-> v]
Threw(e) == [exc |-> e, value |-> <<>>]

\* page size of get_forms_for_template
limit == 200

\* seconds authenticate_browser waits for the redirect
timeout == 120

-----------------------------------------------------------------------------
(* get_form_templates *)

templates_of_results_only(response_data) ==
    IF isinstance_list(response_data) THEN Ran(response_data.l)
    ELSE IF isinstance_dict(response_data) THEN
        LET found == dict_get(response_data, "results", List(<<response_data>>))
        IN  IF isinstance_list(found) THEN Ran(found.l)
            ELSE IF truthy(found) THEN Ran(<<found>>) ELSE Ran(<<>>)
    ELSE Ran(<<>>)

\* the response-format handling of get_form_templates
templates_of(response_data) ==
    IF isinstance_list(response_data) THEN Ran(response_data.l)
    ELSE IF isinstance_dict(response_data) THEN
        LET found == dict_get(response_data, "results",
                              dict_get(response_data, "data", List(<<response_data>>)))
        IN  IF isinstance_list(found) THEN Ran(found.l)
            ELSE IF truthy(found) THEN Ran(<<found>>) ELSE Ran(<<>>)
    ELSE Ran(<<>>)

\* the try block of get_form_templates
templates_try(resp) ==
    IF ~resp.transport_ok THEN Threw("ConnectionError")
    ELSE IF raise_for_status(resp.status_code) THEN Threw("HTTPError")
    ELSE IF ~resp.json_ok THEN Threw("ValueError")
    ELSE templates_of(resp.body)

get_form_templates_http_only(resp) ==
    LET r == templates_try(resp)
    IN  IF r.exc = "HTTPError" THEN Returned(<<>>)
        ELSE IF r.exc # "none" THEN Raised
        ELSE Returned(r.value)

get_form_templates(resp) ==
    LET r == templates_try(resp)
    IN  IF r.exc = "HTTPError" THEN Returned(<<>>)
        ELSE IF r.exc # "none" THEN Returned(<<>>)
        ELSE Returned(r.value)

-----------------------------------------------------------------------------
(* get_forms_for_template: one pass of its while loop *)

\* the response-format handling of get_forms_for_template
forms_of(response_data) ==
    IF isinstance_list(response_data) THEN
        [unexpected |-> FALSE, forms |-> response_data.l]
    ELSE IF isinstance_dict(response_data) THEN
        LET found == dict_get(response_data, "results",
                              dict_get(response_data, "data", List(<<>>)))
        IN  IF isinstance_list(found) THEN [unexpected |-> FALSE, forms |-> found.l]
            ELSE IF truthy(response_data)
                 THEN [unexpected |-> FALSE, forms |-> <<response_data>>]
                 ELSE [unexpected |-> FALSE, forms |-> <<>>]
    ELSE [unexpected |-> TRUE, forms |-> <<>>]

Break(acc, off) == [all_forms |-> acc, offset |-> off, again |-> FALSE]
Continue(acc, off) == [all_forms |-> acc, offset |-> off, again |-> TRUE]

page_stop_at_full(acc, off, resp) ==
    IF ~resp.transport_ok THEN Break(acc, off)
    ELSE IF resp.status_code = 404 THEN Break(acc, off)
    ELSE IF raise_for_status(resp.status_code) THEN Break(acc, off)
    ELSE IF ~resp.json_ok THEN Break(acc, off)
    ELSE LET p == forms_of(resp.body)
         IN  IF p.unexpected THEN Break(acc, off)
             ELSE IF p.forms = <<>> THEN Break(acc, off)
             ELSE IF Len(p.forms) <= limit THEN Break(acc \o p.forms, off)
             ELSE Continue(acc \o p.forms, off + limit)

page_404_returns_empty(acc, off, resp) ==
    IF ~resp.transport_ok THEN Break(acc, off)
    ELSE IF resp.status_code = 404 THEN Break(<<>>, off)
    ELSE IF raise_for_status(resp.status_code) THEN Break(acc, off)
    ELSE IF ~resp.json_ok THEN Break(acc, off)
    ELSE LET p == forms_of(resp.body)
         IN  IF p.unexpected THEN Break(acc, off)
             ELSE IF p.forms = <<>> THEN Break(acc, off)
             ELSE IF Len(p.forms) < limit THEN Break(acc \o p.forms, off)
             ELSE Continue(acc \o p.forms, off + limit)

page_error_returns_empty(acc, off, resp) ==
    IF ~resp.transport_ok THEN Break(<<>>, off)
    ELSE IF resp.status_code = 404 THEN Break(acc, off)
    ELSE IF raise_for_status(resp.status_code) THEN Break(<<>>, off)
    ELSE IF ~resp.json_ok THEN Break(<<>>, off)
    ELSE LET p == forms_of(resp.body)
         IN  IF p.unexpected THEN Break(acc, off)
             ELSE IF p.forms = <<>> THEN Break(acc, off)
             ELSE IF Len(p.forms) < limit THEN Break(acc \o p.forms, off)
             ELSE Continue(acc \o p.forms, off + limit)

\* a variant that moves the offset on by one row less than a page
page_overlapping(acc, off, resp) ==
    IF ~resp.transport_ok THEN Break(acc, off)
    ELSE IF resp.status_code = 404 THEN Break(acc, off)
    ELSE IF raise_for_status(resp.status_code) THEN Break(acc, off)
    ELSE IF ~resp.json_ok THEN Break(acc, off)
    ELSE LET p == forms_of(resp.body)
         IN  IF p.unexpected THEN Break(acc, off)
             ELSE IF p.forms = <<>> THEN Break(acc, off)
             ELSE IF Len(p.forms) < limit THEN Break(acc \o p.forms, off)
             ELSE Continue(acc \o p.forms, off + limit - 1)

\* acc, off: all_forms and offset before the pass; resp: the answer to its request
get_forms_for_template_page(acc, off, resp) ==
    IF ~resp.transport_ok THEN Break(acc, off)
    ELSE IF resp.status_code = 404 THEN Break(acc, off)
    ELSE IF raise_for_status(resp.status_code) THEN Break(acc, off)
    ELSE IF ~resp.json_ok THEN Break(acc, off)
    ELSE LET p == forms_of(resp.body)
         IN  IF p.unexpected THEN Break(acc, off)
             ELSE IF p.forms = <<>> THEN Break(acc, off)
             ELSE IF Len(p.forms) < limit THEN Break(acc \o p.forms, off)
             ELSE Continue(acc \o p.forms, off + limit)

-----------------------------------------------------------------------------
(* try_alternative_forms_endpoint *)

\* the response-format handling of try_alternative_forms_endpoint
alt_forms_of(response_data) ==
    IF isinstance_list(response_data) THEN Ran(response_data.l)
    ELSE IF isinstance_dict(response_data) THEN
        LET found == dict_get(response_data, "results",
                              dict_get(response_data, "data", List(<<>>)))
        IN  IF isinstance_list(found) THEN Ran(found.l)
            ELSE IF truthy(response_data) THEN Ran(<<response_data>>)
            ELSE Ran(<<>>)
    ELSE Ran(<<>>)

try_alternative_forms_endpoint(resp) ==
    IF ~resp.transport_ok THEN Returned(<<>>)
    ELSE IF resp.status_code = 404 THEN Returned(<<>>)
    ELSE IF raise_for_status(resp.status_code) THEN Returned(<<>>)
    ELSE IF ~resp.json_ok THEN Returned(<<>>)
    ELSE Returned(alt_forms_of(resp.body).value)


-----------------------------------------------------------------------------
(* get_all_forms: the template loop and the stamping of template metadata *)

\* a template the loop fetches forms for: a dict with a truthy id
fetchable(template) ==
    isinstance_dict(template) /\ truthy(dict_get(template, "id", None))

\* index of the first template at or after position i that is fetched, 0 if none
next_template(tpls, i) ==
    IF \E j \in i..Len(tpls) : fetchable(tpls[j])
    THEN CHOOSE j \in i..Len(tpls) :
            /\ fetchable(tpls[j])
            /\ \A k \in i..(j - 1) : ~fetchable(tpls[k])
    ELSE 0

stamp_form_id_as_name(form, template) ==
    IF isinstance_dict(form) THEN
        dict_set(dict_set(dict_set(form,
            "template_name", dict_get(template, "id", None)),
            "template_type", dict_get(template, "templateType", Str("unknown"))),
            "template_id", dict_get(template, "id", None))
    ELSE form

\* "Add template info to each form", per-template path
stamp_form(form, template) ==
    IF isinstance_dict(form) THEN
        dict_set(dict_set(dict_set(form,
            "template_name", dict_get(template, "name", Str("Unnamed Template"))),
            "template_type", dict_get(template, "templateType", Str("unknown"))),
            "template_id", dict_get(template, "id", None))
    ELSE form

stamp_forms(forms, template) ==
    [k \in 1..Len(forms) |-> stamp_form(forms[k], template)]

\* form.get('formTemplate', {}).get('id') if the formTemplate is a dict, else None
form_template_id_of(form) ==
    IF isinstance_dict(dict_get(form, "formTemplate", None))
    THEN dict_get(dict_get(form, "formTemplate", EmptyDict), "id", None)
    ELSE None

matches(template, form_template_id) ==
    isinstance_dict(template) /\ dict_get(template, "id", None) = form_template_id

find_template_last(tpls, form_template_id) ==
    IF \E j \in 1..Len(tpls) : matches(tpls[j], form_template_id)
    THEN tpls[CHOOSE j \in 1..Len(tpls) :
            /\ matches(tpls[j], form_template_id)
            /\ \A k \in (j + 1)..Len(tpls) : ~matches(tpls[k], form_template_id)]
    ELSE None

\* "Find matching template": the first match, None when there is none
find_template(tpls, form_template_id) ==
    IF \E j \in 1..Len(tpls) : matches(tpls[j], form_template_id)
    THEN tpls[CHOOSE j \in 1..Len(tpls) :
            /\ matches(tpls[j], form_template_id)
            /\ \A k \in 1..(j - 1) : ~matches(tpls[k], form_template_id)]
    ELSE None

\* "Add basic template info", alternative-endpoint path
stamp_alt_form(form, tpls) ==
    IF isinstance_dict(form) THEN
        LET form_template_id == form_template_id_of(form)
            template_info == find_template(tpls, form_template_id)
        IN  IF truthy(template_info) THEN
                dict_set(dict_set(dict_set(form,
                    "template_name", dict_get(template_info, "name", Str("Unknown Template"))),
                    "template_type", dict_get(template_info, "templateType", Str("unknown"))),
                    "template_id", dict_get(template_info, "id", None))
            ELSE
                dict_set(dict_set(dict_set(form,
                    "template_name", Str("Unknown Template")),
                    "template_type", Str("unknown")),
                    "template_id", form_template_id)
    ELSE form

stamp_alt_forms(forms, tpls) ==
    [k \in 1..Len(forms) |-> stamp_alt_form(forms[k], tpls)]

use_alternative_always(all) == TRUE

use_alternative_never(all) == FALSE

\* "If no forms found, try alternative endpoint"
use_alternative(all) == all = <<>>

-----------------------------------------------------------------------------
(* The server: the answers it may give to one request *)

\* kind: what the answer is; rows: the list of elements it carries
Answer(kind, rows, resp) == [kind |-> kind, rows |-> rows, resp |-> resp]
Seen(a) == [kind |-> a.kind, rows |-> a.rows]

FailureAnswers ==
    { Answer("not_found", <<>>, NotFound),
      Answer("http_error", <<>>, ServerError),
      Answer("transport_error", <<>>, TransportError),
      Answer("bad_json", <<>>, BadJson),
      Answer("scalar", <<>>, OkResponse(Str("maintenance"))) }

FailureKinds == {"http_error", "transport_error", "bad_json"}

RowsAnswers(Ls) ==
    { Answer("rows", L, OkResponse(Wrap(sh, L))) : L \in Ls, sh \in Shapes }

\* a single object, not wrapped in a list
ObjectAnswers(objs) == { Answer("object", <<o>>, OkResponse(o)) : o \in objs }

T1 == Dict(("id" :> Str("t1")) @@ ("name" :> Str("Daily Log"))
                               @@ ("templateType" :> Str("daily")))
T1b == Dict(("id" :> Str("t1")) @@ ("name" :> Str("Daily Log v2")))
T2 == Dict("id" :> Str("t2"))
T3 == Dict("name" :> Str("Draft"))
TemplateElems == {T1, T1b, T2, T3, EmptyDict, Str("x")}

F1 == Dict(("id" :> Str("f1")) @@ ("formTemplate" :> Dict("id" :> Str("t1")))
                               @@ ("template_name" :> Str("stale")))
F2 == Dict(("id" :> Str("f2")) @@ ("formTemplate" :> Dict("id" :> Str("t9"))))
F3 == Dict("id" :> Str("f3"))
\* a dict whose "results" is not a list
F4 == Dict(("id" :> Str("f4")) @@ ("results" :> None))
FormElems == {F1, F3, Str("y")}
AltFormElems == {F1, F2, F3, Str("y")}

TemplateAnswers ==
    RowsAnswers(SeqsUpTo(TemplateElems, MaxTemplates))
        \cup ObjectAnswers({T1, T3, EmptyDict}) \cup FailureAnswers

\* answers to a page request of get_all_forms
FormAnswers ==
    RowsAnswers(SeqsUpTo(FormElems, MaxForms))
        \cup ObjectAnswers({F3, F4}) \cup FailureAnswers

\* answers of the alternative endpoint
AltAnswers ==
    RowsAnswers(SeqsUpTo(AltFormElems, MaxForms))
        \cup ObjectAnswers({F3, F4}) \cup FailureAnswers

\* the rows of page number n of a long collection
Row(n) == Dict("id" :> Str(ToString(n)))
PageRows(n, size) == [i \in 1..size |-> Row(1000 * n + i)]
PageSizes == {0, 1, 150, limit - 1, limit, limit + 1}

PagingAnswers(n) ==
    RowsAnswers({PageRows(n, size) : size \in PageSizes})
        \cup ObjectAnswers({F3, F4}) \cup FailureAnswers


\* bodies handed to the three parsers: a list L in each tolerated wrapping,
\* single objects, and bodies whose "results" or "data" is not a list
ParseElems == {T1, T3, EmptyDict, Str("x"), None}
Body(shape, L, body) == [shape |-> shape, L |-> L, body |-> body]
OddBodies ==
    { Dict("results" :> None), Dict("results" :> Str("x")),
      Dict("results" :> EmptyDict), Dict("results" :> T1),
      Dict("data" :> None), Dict("data" :> T1),
      Dict(("results" :> List(<<T1>>)) @@ ("data" :> List(<<T3>>))),
      Dict(("results" :> None) @@ ("data" :> List(<<T1>>))),
      Str("x"), None }
ParseBodies ==
    { Body(sh, L, Wrap(sh, L)) : L \in SeqsUpTo(ParseElems, MaxLen), sh \in Shapes }
        \cup { Body("object", <<o>>, o) : o \in {T1, T3, F1, EmptyDict} }
        \cup { Body("other", <<>>, b) : b \in OddBodies }

-----------------------------------------------------------------------------
(* The calls, step by step: one action per HTTP request and its handling *)

Request(endpoint, template_id, params) ==
    [endpoint |-> endpoint, template_id |-> template_id, params |-> params]

NoOut == [templates |-> <<>>, page |-> <<>>, alt |-> <<>>]
NoCsv == [kind |-> "none", rows |-> <<>>, message |-> ""]
NoCall == [method |-> "none"]
NoStatus == [answered |-> FALSE]
NoJson == [handler |-> "none", status |-> "", message |-> "", auth_url |-> "",
           data |-> <<>>]
NoResponse == [transport_ok |-> FALSE, status_code |-> -1, json_ok |-> FALSE,
               body |-> [t |-> "null", s |-> "", l |-> <<>>, d |-> <<>>]]
NoRequest == [n |-> 0, handler |-> "none", kind |-> "none", resp |-> NoResponse]
NoWrites == [forms_data |-> 0, error_message |-> 0]
NoEnv == [credentials |-> FALSE, project_id |-> FALSE]
NoCollection == [forms |-> <<>>, shape |-> "bare"]

InitCall(c, p, tpls, i) ==
    /\ call = c
    /\ pc = p
    /\ templates = tpls
    /\ ti = i
    /\ tpl_forms = <<>>
    /\ offset = 0
    /\ all_forms = <<>>
    /\ alt_forms = <<>>
    /\ result = <<>>
    /\ requests = <<>>
    /\ served = <<>>
    /\ fetched = <<>>
    /\ p_out = NoOut

\* nothing has been loaded and no export was asked for
CsvIdle == forms_data = <<>> /\ csv_out = NoCsv

\* no authenticator has been made and authenticate_browser was never called
AuthIdle ==
    /\ authenticator = None
    /\ a_last = NoCall
    /\ b_calls = <<>>
    /\ b_elapsed = 0

\* the globals of app.py as the module sets them, no request handled
AppIdle ==
    /\ last_update = None
    /\ is_loading = FALSE
    /\ error_message = None
    /\ threads = <<>>
    /\ status_out = NoStatus
    /\ json_out = NoJson
    /\ handled = NoRequest
    /\ wrote = NoWrites

\* app.py and the authenticator are not running
OtherIdle == CsvIdle /\ AuthIdle /\ AppIdle /\ env = NoEnv

\* no call of the fetcher is running
FetcherIdle ==
    /\ InitCall("none", "done", <<>>, 0)
    /\ p_body = None /\ p_L = <<>> /\ p_shape = ""
    /\ collection = NoCollection

\* a caller invokes get_all_forms(project_id)
Init ==
    /\ InitCall("get_all_forms", "templates", <<>>, 0)
    /\ p_body = None /\ p_L = <<>> /\ p_shape = ""
    /\ collection = NoCollection
    /\ OtherIdle

\* the for loop of get_all_forms moves on to position i of tpls with all
\* accumulated, and past the loop falls back or returns
LoopFrom(tpls, i, all) ==
    LET j == next_template(tpls, i)
    IN  /\ ti' = j
        /\ tpl_forms' = <<>>
        /\ offset' = 0
        /\ all_forms' = all
        /\ IF j > 0 THEN pc' = "forms" /\ result' = result
           ELSE IF use_alternative(all) THEN pc' = "alt" /\ result' = result
           ELSE pc' = "done" /\ result' = all

\* get_all_forms calls get_form_templates and enters its loop
GetFormTemplates ==
    /\ pc = "templates"
    /\ \E a \in TemplateAnswers :
        LET r == get_form_templates(a.resp)
        IN  /\ requests' = Append(requests, Request("form-templates", None, <<>>))
            /\ served' = Append(served, Seen(a))
            /\ IF r.raised THEN
                   /\ pc' = "raised"
                   /\ UNCHANGED <<templates, ti, tpl_forms, offset, all_forms, result>>
               ELSE
                   /\ templates' = r.value
                   /\ IF r.value = <<>> THEN
                          /\ pc' = "done"
                          /\ result' = <<>>
                          /\ UNCHANGED <<ti, tpl_forms, offset, all_forms>>
                      ELSE LoopFrom(r.value, 1, <<>>)
    /\ UNCHANGED <<call, alt_forms, fetched, parseVars, otherVars, collection>>

\* one pass of the while loop of get_forms_for_template; when the loop ends
\* the forms go back to the caller, or to get_all_forms, which stamps them
GetFormsPage ==
    /\ pc = "forms"
    /\ offset < MaxPages * limit
    /\ \E a \in (IF call = "get_forms_for_template"
                 THEN PagingAnswers(Len(requests) + 1) ELSE FormAnswers) :
        LET step == get_forms_for_template_page(tpl_forms, offset, a.resp)
        IN  /\ requests' = Append(requests,
                   Request("forms", dict_get(templates[ti], "id", None), <<limit, offset>>))
            /\ served' = Append(served, Seen(a))
            /\ IF step.again THEN
                   /\ tpl_forms' = step.all_forms
                   /\ offset' = step.offset
                   /\ UNCHANGED <<pc, ti, all_forms, result, fetched>>
               ELSE IF call = "get_forms_for_template" THEN
                   /\ pc' = "done"
                   /\ result' = step.all_forms
                   /\ tpl_forms' = step.all_forms
                   /\ offset' = step.offset
                   /\ UNCHANGED <<ti, all_forms, fetched>>
               ELSE
                   /\ fetched' = Append(fetched, [ti |-> ti, forms |-> step.all_forms])
                   /\ LoopFrom(templates, ti + 1,
                               all_forms \o stamp_forms(step.all_forms, templates[ti]))
    /\ UNCHANGED <<call, templates, alt_forms, parseVars, otherVars, collection>>

\* get_all_forms calls try_alternative_forms_endpoint, stamps and returns
TryAlternative ==
    /\ pc = "alt"
    /\ \E a \in AltAnswers :
        LET r == try_alternative_forms_endpoint(a.resp)
        IN  /\ requests' = Append(requests, Request("forms-all", None, <<>>))
            /\ served' = Append(served, Seen(a))
            /\ IF r.raised THEN
                   /\ pc' = "raised"
                   /\ UNCHANGED <<alt_forms, all_forms, result>>
               ELSE
                   /\ alt_forms' = r.value
                   /\ all_forms' = all_forms \o stamp_alt_forms(r.value, templates)
                   /\ result' = all_forms'
                   /\ pc' = "done"
    /\ UNCHANGED <<call, templates, ti, tpl_forms, offset, fetched, parseVars, otherVars, collection>>

Next == GetFormTemplates \/ GetFormsPage \/ TryAlternative

Spec == Init /\ [][Next]_vars

\* a caller invokes get_forms_for_template(project_id, template_id) directly
InitPage ==
    /\ \E t \in {T1, T2} : InitCall("get_forms_for_template", "forms", <<t>>, 1)
    /\ p_body = None /\ p_L = <<>> /\ p_shape = ""
    /\ collection = NoCollection
    /\ OtherIdle

SpecPage == InitPage /\ [][GetFormsPage]_vars

\* the three parsers are applied to one successful response with body p_body
InitParse ==
    /\ InitCall("parse", "parse", <<>>, 0)
    /\ \E b \in ParseBodies : p_body = b.body /\ p_L = b.L /\ p_shape = b.shape
    /\ collection = NoCollection
    /\ OtherIdle

Parse ==
    /\ pc = "parse"
    /\ p_out' =
        [templates |-> get_form_templates(OkResponse(p_body)).value,
         page      |-> get_forms_for_template_page(<<>>, 0, OkResponse(p_body)).all_forms,
         alt       |-> try_alternative_forms_endpoint(OkResponse(p_body)).value]
    /\ pc' = "done"
    /\ UNCHANGED <<call, fetchVars, p_body, p_L, p_shape, otherVars, collection>>

SpecParse == InitParse /\ [][Parse]_vars

-----------------------------------------------------------------------------
(* Properties of get_forms_for_template, checked under SpecPage *)

\* the rows of the answers 1..n, in order
RowsUpTo(n) == Concat([i \in 1..n |-> served[i].rows])

\* a page at which the pagination is to end: a 404, or fewer than 200 rows
PageEnds(s) == s.kind = "not_found" \/ (s.kind = "rows" /\ Len(s.rows) < 200)

\* every answer so far was a page of rows or a 404
OnlyPages == \A i \in 1..Len(served) : served[i].kind \in {"rows", "not_found"}

\* C1: the requests carry limit 200 and the offsets 0, 200, 400, ... in order;
\* a page that is short, empty or a 404 is the last one requested and ends the
\* call; a call answered by pages only ends at such a page and returns the rows
\* of all its pages, concatenated in order.
C1_Pagination ==
    /\ \A i \in 1..Len(requests) :
          /\ requests[i].endpoint = "forms"
          /\ requests[i].params = <<200, 200 * (i - 1)>>
    /\ Len(served) = Len(requests)
    /\ \A i \in 1..Len(served) :
          PageEnds(served[i]) => i = Len(served) /\ pc = "done"
    /\ (pc = "done" /\ OnlyPages) =>
          /\ PageEnds(served[Len(served)])
          /\ result = RowsUpTo(Len(served))

\* pages of 200, 200 and 150 rows: three requests, 550 rows
C1_Witness ==
    /\ pc = "done"
    /\ Len(requests) = 3
    /\ Len(served) = 3
    /\ served[1].kind = "rows" /\ Len(served[1].rows) = 200
    /\ served[2].kind = "rows" /\ Len(served[2].rows) = 200
    /\ served[3].kind = "rows" /\ Len(served[3].rows) = 150
    /\ Len(result) = 550

\* C2: a 404 on the first page gives the empty list after exactly one request;
\* a 404 on a later page ends the call, which returns the rows of the earlier
\* pages; in neither case is an error raised.
C2_NotFound ==
    \A i \in 1..Len(served) :
        served[i].kind = "not_found" =>
            /\ pc = "done"
            /\ Len(requests) = i
            /\ result = RowsUpTo(i - 1)
            /\ (i = 1 => result = <<>>)

C2_Witness ==
    /\ pc = "done"
    /\ Len(requests) = 2
    /\ Len(served) = 2
    /\ served[2].kind = "not_found"
    /\ Len(result) = 200

\* C3: a transport error, a non-404 error status or an unparsable body ends
\* the call without an exception and without a further request; the call
\* returns the rows of the pages fetched before the failure.
C3_FailureTruncates ==
    \A i \in 1..Len(served) :
        served[i].kind \in FailureKinds =>
            /\ pc = "done"
            /\ Len(requests) = i
            /\ result = RowsUpTo(i - 1)

C3_Witness ==
    /\ pc = "done"
    /\ Len(served) = 3
    /\ served[3].kind \in FailureKinds
    /\ Len(result) >= 400

-----------------------------------------------------------------------------
(* Properties of the response parsers, checked under SpecParse *)

\* C6: from the bodies L, {"results": L} and {"data": L} the templates parser,
\* the forms parser of a page and the parser of the alternative endpoint each
\* extract the list L.
C6_ThreeShapes ==
    (pc = "done" /\ p_shape \in Shapes) =>
        /\ p_out.templates = p_L
        /\ p_out.page = p_L
        /\ p_out.alt = p_L

C6_Witness ==
    /\ pc = "done"
    /\ p_shape = "data"
    /\ Len(p_L) = 2
    /\ p_L[1] # p_L[2]
    /\ p_out.alt = p_L

\* C7: for every successful response body, try_alternative_forms_endpoint
\* extracts the same list as get_form_templates; a single object without a
\* "results" or "data" key gives the one-element list holding that object.
C7_SameTolerance ==
    pc = "done" =>
        /\ p_out.alt = p_out.templates
        /\ (p_shape = "object" => p_out.alt = <<p_body>>)

-----------------------------------------------------------------------------
(* Properties of get_all_forms, checked under Spec *)

AltRequests == {i \in 1..Len(requests) : requests[i].endpoint = "forms-all"}

\* the list of templates the server's first answer carries
TemplateList ==
    IF served # <<>> /\ served[1].kind \in {"rows", "object"}
    THEN served[1].rows ELSE <<>>

\* no get_forms_for_template call has returned a form
UnionEmpty == \A k \in 1..Len(fetched) : fetched[k].forms = <<>>

StampKeys == {"template_name", "template_type", "template_id"}

\* res holds the forms of raw, one for one and in order, changed at most in
\* the three stamped keys
SameForms(res, raw) ==
    /\ Len(res) = Len(raw)
    /\ \A k \in 1..Len(raw) :
          IF raw[k].t = "dict"
          THEN /\ res[k].t = "dict"
               /\ DOMAIN res[k].d = DOMAIN raw[k].d \cup StampKeys
               /\ \A key \in DOMAIN raw[k].d \ StampKeys : res[k].d[key] = raw[k].d[key]
          ELSE res[k] = raw[k]

\* C4: the alternative endpoint is requested at most once, and only when every
\* per-template fetch returned no form; when some template yields a form there
\* is no such request and the result holds the per-template forms only.
C4_FallbackOnlyWhenEmpty ==
    /\ Cardinality(AltRequests) <= 1
    /\ AltRequests # {} =>
          /\ UnionEmpty
          /\ Len(fetched) = Cardinality({j \in 1..Len(TemplateList) : fetchable(TemplateList[j])})
    /\ (pc = "done" /\ ~UnionEmpty) =>
          /\ AltRequests = {}
          /\ alt_forms = <<>>
          /\ SameForms(result, Concat([k \in 1..Len(fetched) |-> fetched[k].forms]))

\* one template yields nothing, another a form: no fallback
C4_Witness ==
    /\ pc = "done"
    /\ Len(fetched) = 2
    /\ fetched[1].forms = <<>>
    /\ fetched[2].forms # <<>>
    /\ AltRequests = {}
    /\ Len(result) = 1

\* C5 as stated: whatever the templates fetch gave, an empty union of forms
\* makes get_all_forms request the alternative endpoint and return its forms.
C5_FallbackWheneverEmpty ==
    (pc = "done" /\ UnionEmpty) =>
        /\ Cardinality(AltRequests) = 1
        /\ SameForms(result, alt_forms)

\* C5 as amended: with a non-empty list of templates (also one whose entries
\* all lack an id) and an empty union of forms, get_all_forms requests the
\* alternative endpoint once and returns its forms; with an empty list of
\* templates or a failed templates fetch it returns the empty list after the
\* templates request alone.
C5_FallbackWhenTemplatesExist ==
    pc = "done" =>
        /\ (TemplateList # <<>> /\ UnionEmpty) =>
              /\ Cardinality(AltRequests) = 1
              /\ requests[Len(requests)].endpoint = "forms-all"
              /\ (served[Len(served)].kind = "rows" =>
                      alt_forms = served[Len(served)].rows)
              /\ SameForms(result, alt_forms)
        /\ TemplateList = <<>> =>
              /\ AltRequests = {}
              /\ Len(requests) = 1
              /\ result = <<>>

\* every template lacks an id, and the alternative endpoint has a form
C5_Witness ==
    /\ pc = "done"
    /\ TemplateList = <<T3, EmptyDict>>
    /\ fetched = <<>>
    /\ Cardinality(AltRequests) = 1
    /\ alt_forms = <<F2>>
    /\ Len(result) = 1

\* the metadata the per-template path is to stamp on a form of template t
StampedBy(f, t) ==
    IF f.t = "dict"
    THEN Dict(("template_name" :>
                  (IF "name" \in DOMAIN t.d THEN t.d["name"] ELSE Str("Unnamed Template")))
              @@ ("template_type" :>
                  (IF "templateType" \in DOMAIN t.d THEN t.d["templateType"] ELSE Str("unknown")))
              @@ ("template_id" :> t.d["id"])
              @@ f.d)
    ELSE f

\* C8: in the per-template path the result is the concatenation, in the order
\* of the template list, of the forms fetched for each template, each form
\* record carrying the name, type and id of the template it was fetched under
\* ('Unnamed Template' and 'unknown' where the template has no name or type).
C8_StampedByOwnTemplate ==
    /\ \A k \in 1..Len(fetched) :
          /\ fetchable(TemplateList[fetched[k].ti])
          /\ requests[k + 1].template_id = TemplateList[fetched[k].ti].d["id"]
          /\ \A m \in 1..(k - 1) : fetched[m].ti < fetched[k].ti
    /\ (pc = "done" /\ AltRequests = {}) =>
          result = Concat([k \in 1..Len(fetched) |->
                      [n \in 1..Len(fetched[k].forms) |->
                          StampedBy(fetched[k].forms[n], TemplateList[fetched[k].ti])]])

\* two templates, the second without name and type, each with a form
C8_Witness ==
    /\ pc = "done"
    /\ TemplateList = <<T1, T2>>
    /\ Len(fetched) = 2
    /\ fetched[1].forms = <<F1>>
    /\ fetched[2].forms = <<F3>>
    /\ Len(result) = 2
    /\ result[1].d["template_name"] = Str("Daily Log")
    /\ result[2].d["template_name"] = Str("Unnamed Template")

\* the form carries a nested formTemplate id
HasNestedId(f) ==
    /\ "formTemplate" \in DOMAIN f.d
    /\ f.d["formTemplate"].t = "dict"
    /\ "id" \in DOMAIN f.d["formTemplate"].d

NestedId(f) == IF HasNestedId(f) THEN f.d["formTemplate"].d["id"] ELSE None

HasId(t, id) == t.t = "dict" /\ "id" \in DOMAIN t.d /\ t.d["id"] = id

\* the id of a template record, None for a record without one
IdOrNone(t) == IF "id" \in DOMAIN t.d THEN t.d["id"] ELSE None

\* C9: in the alternative-endpoint path a form with a nested formTemplate id
\* carries the name, type and id of the first template of the list with that
\* id; a form whose (possibly absent) nested id no template matches carries
\* 'Unknown Template', 'unknown' and its nested id.
C9_AltStampedByFirstMatch ==
    (pc = "done" /\ AltRequests # {}) =>
        /\ Len(result) = Len(alt_forms)
        /\ \A k \in 1..Len(alt_forms) :
              LET f == alt_forms[k]
                  r == result[k]
                  M == {j \in 1..Len(TemplateList) : HasId(TemplateList[j], NestedId(f))}
              IN  f.t = "dict" =>
                    /\ (HasNestedId(f) /\ M # {}) =>
                          LET t == TemplateList[CHOOSE j \in M : \A i \in M : j <= i]
                          IN  /\ r.d["template_id"] = t.d["id"]
                              /\ "name" \in DOMAIN t.d => r.d["template_name"] = t.d["name"]
                              /\ "templateType" \in DOMAIN t.d =>
                                    r.d["template_type"] = t.d["templateType"]
                    /\ (\A j \in 1..Len(TemplateList) :
                            TemplateList[j].t = "dict" =>
                                IdOrNone(TemplateList[j]) # NestedId(f)) =>
                          /\ r.d["template_name"] = Str("Unknown Template")
                          /\ r.d["template_type"] = Str("unknown")
                          /\ r.d["template_id"] = NestedId(f)

\* two templates share the id of the form's formTemplate: the first one wins
C9_Witness ==
    /\ pc = "done"
    /\ AltRequests # {}
    /\ TemplateList = <<T1, T1b>>
    /\ alt_forms = <<F1>>
    /\ result[1].d["template_name"] = Str("Daily Log")
    /\ result[1].d["template_id"] = Str("t1")

\* C10: no call raises; a templates fetch that fails by a transport error, an
\* HTTP error status or an unparsable body makes get_form_templates return the
\* empty list, and get_all_forms the empty list, as for a project without forms.
C10_NeverRaises ==
    /\ pc # "raised"
    /\ (served # <<>> /\ served[1].kind \in FailureKinds \cup {"not_found"}) =>
          /\ pc = "done"
          /\ templates = <<>>
          /\ result = <<>>
          /\ Len(requests) = 1

C10_Witness ==
    /\ pc = "done"
    /\ served[1].kind = "transport_error"
    /\ templates = <<>>
    /\ result = <<>>

-----------------------------------------------------------------------------
(* export_csv of app.py *)

\* the boolean False as a cell value
False == [t |-> "bool", s |-> "False", l |-> <<>>, d |-> <<>>]

\* the order in which a dict yields its keys (their order in the JSON text)
KeyOrder == <<"t1", "t2", "a", "b", "x">>

\* for k, v in d.items()
items(v) == SelectSeq(KeyOrder, LAMBDA k : k \in DOMAIN v.d)

RECURSIVE Join(_, _)
Join(parts, sep) ==
    IF parts = <<>> THEN ""
    ELSE IF Len(parts) = 1 THEN parts[1]
    ELSE parts[1] \o sep \o Join(Tail(parts), sep)

\* repr(v), as str() shows the members of a list or dict
RECURSIVE repr(_)
repr(v) ==
    CASE v.t = "null" -> "None"
      [] v.t = "bool" -> v.s
      [] v.t = "str"  -> "'" \o v.s \o "'"
      [] v.t = "list" ->
            "[" \o Join([i \in 1..Len(v.l) |-> repr(v.l[i])], ", ") \o "]"
      [] v.t = "dict" ->
            "{" \o Join([i \in 1..Len(items(v)) |->
                            "'" \o items(v)[i] \o "': " \o repr(v.d[items(v)[i]])],
                        ", ") \o "}"

\* str(v)
str(v) == IF v.t = "str" THEN v.s ELSE repr(v)

\* str(field_value) if field_value is not None else ''
cell_text(v) == IF v = None THEN Str("") ELSE Str(str(v))

\* form_base: the columns every row of a form starts with
form_base(form) ==
    [form_id       |-> dict_get(form, "id", None),
     form_number   |-> dict_get(form, "formNum", None),
     form_name     |-> dict_get(form, "name", None),
     template_name |-> dict_get(form, "template_name", None),
     status        |-> dict_get(form, "status", None),
     form_date     |-> dict_get(form, "formDate", None),
     created_at    |-> dict_get(form, "createdAt", None),
     created_by    |-> dict_get(form, "createdBy", None),
     assignee_id   |-> dict_get(form, "assigneeId", None),
     assignee_type |-> dict_get(form, "assigneeType", None),
     location_id   |-> dict_get(form, "locationId", None)]

\* row = form_base.copy(); row.update(update)
row_of(base, update) == update @@ base

\* the value slot of a custom field: the one valueName names, else the first
\* of the known slots the field has, else ""
custom_field_value(field, value_name) ==
    IF truthy(value_name) /\ value_name.s \in DOMAIN field.d
        THEN field.d[value_name.s]
    ELSE IF "textVal" \in DOMAIN field.d THEN field.d["textVal"]
    ELSE IF "value" \in DOMAIN field.d THEN field.d["value"]
    ELSE IF "numberVal" \in DOMAIN field.d THEN field.d["numberVal"]
    ELSE IF "dateVal" \in DOMAIN field.d THEN field.d["dateVal"]
    ELSE IF "booleanVal" \in DOMAIN field.d THEN field.d["booleanVal"]
    ELSE Str("")

\* the row written for one dict of customValues
custom_row(base, field) ==
    LET value_name == dict_get(field, "valueName", Str("textVal"))
    IN  row_of(base,
          [field_type      |-> Str("custom"),
           field_name      |-> dict_get(field, "itemLabel", dict_get(field, "name", Str(""))),
           field_value     |-> cell_text(custom_field_value(field, value_name)),
           field_id        |-> dict_get(field, "fieldId", dict_get(field, "id", Str(""))),
           field_section   |-> dict_get(field, "sectionLabel", Str("")),
           field_data_type |-> IF truthy(value_name) THEN value_name ELSE Str("text"),
           field_required  |-> dict_get(field, "required", False)])

\* "value_name in field" raises TypeError for a valueName that is a list or dict
unhashable_value_name(field) ==
    LET value_name == dict_get(field, "valueName", Str("textVal"))
    IN  truthy(value_name) /\ value_name.t # "str"

\* what "for field in custom_values" yields: the members of a list; a dict or
\* a str yields strings
iterate(v) == IF isinstance_list(v) THEN v.l ELSE <<>>

\* the rows written for customValues: one for each member that is a dict
custom_rows(base, form) ==
    LET custom_values == dict_get(form, "customValues", List(<<>>))
        fields == SelectSeq(iterate(custom_values), isinstance_dict)
    IN  IF ~truthy(custom_values) THEN Ran(<<>>)
        ELSE IF \E i \in 1..Len(fields) : unhashable_value_name(fields[i])
            THEN Threw("TypeError")
        ELSE Ran([i \in 1..Len(fields) |-> custom_row(base, fields[i])])


\* the row written for the cell field_name of row i of a table
cell_row(base, table_name, i, field_name, field_value) ==
    row_of(base,
      [field_type      |-> Str("tabular"),
       field_name      |-> Str(table_name \o "." \o field_name),
       field_value     |-> cell_text(field_value),
       field_id        |-> Str(table_name \o "_row_" \o ToString(i) \o "_" \o field_name),
       field_section   |-> Str(table_name),
       field_data_type |-> Str("tabular_cell"),
       field_required  |-> False])

\* a variant that writes one line for a whole table row
row_cells_one_per_row(base, table_name, i, row_data) ==
    IF isinstance_dict(row_data)
        THEN <<cell_row(base, table_name, i, "row", row_data)>>
    ELSE <<>>

\* the rows written for row i of a table: one for each cell of a dict
row_cells(base, table_name, i, row_data) ==
    IF isinstance_dict(row_data)
        THEN [j \in 1..Len(items(row_data)) |->
                cell_row(base, table_name, i, items(row_data)[j],
                         row_data.d[items(row_data)[j]])]
    ELSE <<>>

\* the rows written for one table: those of its rows, when it is a non-empty list
table_rows(base, table_name, table_data) ==
    IF truthy(table_data) /\ isinstance_list(table_data)
        THEN Concat([i \in 1..Len(table_data.l) |->
                        row_cells(base, table_name, i - 1, table_data.l[i])])
    ELSE <<>>

\* the rows written for tabularValues; .items() raises on what is not a dict
tabular_rows(base, form) ==
    LET tabular_values == dict_get(form, "tabularValues", EmptyDict)
        names == items(tabular_values)
    IN  IF ~truthy(tabular_values) THEN Ran(<<>>)
        ELSE IF ~isinstance_dict(tabular_values) THEN Threw("AttributeError")
        ELSE Ran(Concat([n \in 1..Len(names) |->
                    table_rows(base, names[n], tabular_values.d[names[n]])]))

\* the body of the loop over forms_data: the rows of one form
form_rows(form) ==
    LET base == form_base(form)
        custom == custom_rows(base, form)
        tabular == tabular_rows(base, form)
    IN  IF custom.exc # "none" THEN custom
        ELSE IF tabular.exc # "none" THEN tabular
        ELSE Ran(custom.value \o tabular.value)

CsvFile(rows) == [kind |-> "csv", rows |-> rows, message |-> ""]
CsvError(message) == [kind |-> "error", rows |-> <<>>, message |-> message]

\* export_csv(): the data rows of the file it sends, or the error it reports
export_csv(fd) ==
    IF fd = <<>> THEN CsvError("No data to export")
    ELSE LET per_form == [f \in 1..Len(fd) |-> form_rows(fd[f])]
             failed == {f \in 1..Len(fd) : per_form[f].exc # "none"}
         IN  IF failed # {}
                 THEN CsvError(per_form[CHOOSE f \in failed :
                                          \A g \in failed : f <= g].exc)
             ELSE CsvFile(Concat([f \in 1..Len(fd) |-> per_form[f].value]))

\* the forms the export is given
Field1 == Dict(("itemLabel" :> Str("Weather")) @@ ("valueName" :> Str("textVal"))
               @@ ("textVal" :> Str("sunny")) @@ ("fieldId" :> Str("f1")))
Field2 == Dict(("name" :> Str("Crew")) @@ ("value" :> Str("4")))
Field3 == Dict(("itemLabel" :> Str("Note")) @@ ("valueName" :> List(<<Str("x")>>)))
Row1 == Dict(("a" :> Str("1")) @@ ("b" :> Str("2")))
Row2 == Dict(("a" :> Str("3")) @@ ("b" :> None))
Row3 == Dict("x" :> List(<<Str("p")>>))

CsvForm(id, custom, tabular) ==
    Dict(("id" :> Str(id)) @@ ("template_name" :> Str("Daily"))
         @@ ("customValues" :> custom) @@ ("tabularValues" :> tabular))

\* two custom fields and one table of two rows by two cells
FormExample == CsvForm("e", List(<<Field1, Field2>>), Dict("t1" :> List(<<Row1, Row2>>)))
\* neither fields nor tables
FormBare == Dict("id" :> Str("n"))
FormEmpty == CsvForm("z", List(<<>>), EmptyDict)
FormNulls == CsvForm("u", None, None)
\* a field list with members that are no dict, and two tables, one of them
\* with a member that is no dict
FormMixed == CsvForm("m", List(<<Str("s"), Field2, None>>),
                     Dict(("t1" :> List(<<Row3, Str("r")>>)) @@ ("t2" :> List(<<Row1>>))))
\* tables that are no list, or empty
FormOddTables == CsvForm("o", List(<<Field1>>),
                         Dict(("t1" :> Row1) @@ ("t2" :> List(<<>>))))
\* customValues that is a dict
FormDictFields == CsvForm("d", Field1, Dict("t1" :> List(<<Row3>>)))
\* tabularValues that is a list
FormListTables == CsvForm("l", List(<<Field1>>), List(<<Row1>>))
\* a field whose valueName is a list
FormBadName == CsvForm("b", List(<<Field3>>), EmptyDict)

CsvForms == {FormExample, FormBare, FormEmpty, FormNulls, FormMixed,
             FormOddTables, FormDictFields, FormListTables, FormBadName}

\* forms_data holds some forms, or none
InitCsv ==
    /\ FetcherIdle
    /\ AuthIdle
    /\ AppIdle
    /\ env = NoEnv
    /\ forms_data \in SeqsUpTo(CsvForms, MaxCsvForms)
    /\ csv_out = NoCsv

\* a client asks for /api/export-csv
ExportCsv ==
    /\ csv_out' = export_csv(forms_data)
    /\ status_out' = NoStatus
    /\ json_out' = NoJson
    /\ UNCHANGED <<fetcherVars, forms_data, authVars, last_update, is_loading,
                   error_message, threads, env, handled, wrote>>

SpecCsv == InitCsv /\ [][ExportCsv]_vars

-----------------------------------------------------------------------------
(* C11: one data row per custom field and per table cell, none per form *)

RECURSIVE SumOver(_, _)
SumOver(S, f) ==
    IF S = {} THEN 0
    ELSE LET x == CHOOSE y \in S : TRUE IN f[x] + SumOver(S \ {x}, f)

\* the custom fields of a form: the mappings in its list of custom values
CustomFieldCount(form) ==
    IF "customValues" \in DOMAIN form.d /\ form.d["customValues"].t = "list"
        THEN Cardinality({i \in DOMAIN form.d["customValues"].l :
                            form.d["customValues"].l[i].t = "dict"})
    ELSE 0

\* the cells of a table: those of its row mappings
TableCellCount(table) ==
    IF table.t = "list"
        THEN SumOver({i \in DOMAIN table.l : table.l[i].t = "dict"},
                     [i \in DOMAIN table.l |-> Cardinality(DOMAIN table.l[i].d)])
    ELSE 0

\* the table cells of a form
CellCount(form) ==
    IF "tabularValues" \in DOMAIN form.d /\ form.d["tabularValues"].t = "dict"
        THEN SumOver(DOMAIN form.d["tabularValues"].d,
                     [n \in DOMAIN form.d["tabularValues"].d |->
                        TableCellCount(form.d["tabularValues"].d[n])])
    ELSE 0

\* a form as the data model has it: custom values a list (or absent) of
\* fields with a string for valueName, tabular values a mapping (or absent)
WellFormed(form) ==
    /\ "customValues" \in DOMAIN form.d =>
          /\ form.d["customValues"].t \in {"list", "null"}
          /\ \A i \in DOMAIN form.d["customValues"].l :
                LET field == form.d["customValues"].l[i]
                IN  (field.t = "dict" /\ "valueName" \in DOMAIN field.d)
                        => field.d["valueName"].t \in {"str", "null"}
    /\ "tabularValues" \in DOMAIN form.d =>
          form.d["tabularValues"].t \in {"dict", "null"}

RowsOfType(rows, type) == {i \in DOMAIN rows : rows[i]["field_type"] = Str(type)}
RowsOfForm(rows, form) ==
    {i \in DOMAIN rows : rows[i]["form_id"] = form.d["id"]}

\* C11: the export of a non-empty list of well-formed forms is a CSV file, and
\* a CSV file has, for each form, as many "custom" rows as the form has custom
\* fields and as many "tabular" rows as it has table cells, and no other row
C11_RowPerFieldAndCell ==
    csv_out # NoCsv =>
        /\ (forms_data # <<>> /\ \A f \in DOMAIN forms_data : WellFormed(forms_data[f]))
              => csv_out.kind = "csv"
        /\ csv_out.kind = "csv" =>
              /\ Len(csv_out.rows) =
                    SumOver(DOMAIN forms_data,
                            [f \in DOMAIN forms_data |->
                                CustomFieldCount(forms_data[f]) + CellCount(forms_data[f])])
              /\ \A f \in DOMAIN forms_data :
                    LET mine == {g \in DOMAIN forms_data : forms_data[g] = forms_data[f]}
                    IN  /\ Cardinality(RowsOfType(csv_out.rows, "custom")
                                       \cap RowsOfForm(csv_out.rows, forms_data[f]))
                              = Cardinality(mine) * CustomFieldCount(forms_data[f])
                        /\ Cardinality(RowsOfType(csv_out.rows, "tabular")
                                       \cap RowsOfForm(csv_out.rows, forms_data[f]))
                              = Cardinality(mine) * CellCount(forms_data[f])
              /\ \A i \in DOMAIN csv_out.rows :
                    csv_out.rows[i]["field_type"] \in {Str("custom"), Str("tabular")}

\* the form with two custom fields and one 2x2 table is exported as 6 rows,
\* next to a form without fields and tables that adds none
C11_Witness ==
    /\ forms_data = <<FormExample, FormBare>>
    /\ csv_out.kind = "csv"
    /\ Len(csv_out.rows) = 6

-----------------------------------------------------------------------------
(* AutodeskAuthenticator: the two token methods *)

\* __init__: no token yet
AutodeskAuthenticator == [access_token |-> None, refresh_token |-> None]

\* what a token method leaves behind: the object, the value returned, and
\* whether an exception left the method
TokenOutcome(self, ret, raised) == [self |-> self, ret |-> ret, raised |-> raised]

\* token_data['access_token'], token_data being the parsed body
subscript_access_token(resp) ==
    IF ~resp.json_ok THEN Threw("JSONDecodeError")
    ELSE IF ~isinstance_dict(resp.body) THEN Threw("TypeError")
    ELSE IF "access_token" \notin DOMAIN resp.body.d THEN Threw("KeyError")
    ELSE Ran(resp.body.d["access_token"])

\* a variant that takes the token from any answer that has one
authenticate_any_status(self, resp) ==
    IF subscript_access_token(resp).exc = "none"
        THEN TokenOutcome([self EXCEPT !.access_token = subscript_access_token(resp).value],
                          TRUE, FALSE)
    ELSE TokenOutcome(self, FALSE, FALSE)

\* authenticate_client_credentials(): resp is what requests.post gives
authenticate_client_credentials(self, resp) ==
    IF ~resp.transport_ok THEN TokenOutcome(self, FALSE, FALSE)
    ELSE IF resp.status_code = 200
        THEN LET token == subscript_access_token(resp)
             IN  IF token.exc # "none" THEN TokenOutcome(self, FALSE, FALSE)
                 ELSE TokenOutcome([self EXCEPT !.access_token = token.value],
                                   TRUE, FALSE)
    ELSE TokenOutcome(self, FALSE, FALSE)

\* authenticate()
authenticate(self, resp) == authenticate_client_credentials(self, resp)

\* exchange_code_for_token(code, redirect_uri): resp is what requests.post gives
exchange_code_for_token(self, resp) ==
    IF ~resp.transport_ok THEN TokenOutcome(self, FALSE, FALSE)
    ELSE IF resp.status_code = 200
        THEN LET token == subscript_access_token(resp)
             IN  IF token.exc # "none" THEN TokenOutcome(self, FALSE, FALSE)
                 ELSE TokenOutcome(
                        [self EXCEPT !.access_token = token.value,
                                     !.refresh_token =
                                        dict_get(resp.body, "refresh_token", None)],
                        TRUE, FALSE)
    ELSE TokenOutcome(self, FALSE, FALSE)

\* answers of the token endpoint
TokenBody(access, refresh) ==
    Dict(("access_token" :> Str(access)) @@ ("refresh_token" :> Str(refresh)))
TokenResponses ==
    {OkResponse(TokenBody("tokA", "refA")),
     OkResponse(TokenBody("tokB", "refB")),
     OkResponse(Dict("access_token" :> Str("tokC"))),
     OkResponse(Dict("refresh_token" :> Str("refD"))),
     OkResponse(List(<<Str("tokE")>>)),
     BadJson,
     Response(TRUE, 401, TRUE, Dict("error" :> Str("invalid_client"))),
     Response(TRUE, 201, TRUE, TokenBody("tokF", "refF")),
     TransportError}

\* answers to the code exchange of authenticate_browser and of the callback
ExchangeResponses ==
    {OkResponse(TokenBody("tokA", "refA")),
     Response(TRUE, 401, TRUE, Dict("error" :> Str("invalid_client"))),
     TransportError}

TokenMethods == {"authenticate", "authenticate_client_credentials",
                 "exchange_code_for_token"}

token_method(method, self, resp) ==
    CASE method = "authenticate" -> authenticate(self, resp)
      [] method = "authenticate_client_credentials" ->
            authenticate_client_credentials(self, resp)
      [] method = "exchange_code_for_token" -> exchange_code_for_token(self, resp)

\* a token method runs on the authenticator against the answer resp
TokenCall(method, resp) ==
    LET out == token_method(method, authenticator, resp)
    IN  /\ authenticator' = out.self
        /\ a_last' = [method |-> method, resp |-> resp, before |-> authenticator,
                      ret |-> out.ret, raised |-> out.raised]

\* an authenticator has been constructed
InitAuth ==
    /\ FetcherIdle
    /\ CsvIdle
    /\ authenticator = AutodeskAuthenticator
    /\ a_last = NoCall
    /\ b_calls = <<>>
    /\ b_elapsed = 0
    /\ AppIdle
    /\ env = NoEnv

Authenticate ==
    /\ \E resp \in TokenResponses : TokenCall("authenticate", resp)
    /\ UNCHANGED <<fetcherVars, csvVars, appVars, b_calls, b_elapsed>>

AuthenticateClientCredentials ==
    /\ \E resp \in TokenResponses : TokenCall("authenticate_client_credentials", resp)
    /\ UNCHANGED <<fetcherVars, csvVars, appVars, b_calls, b_elapsed>>

ExchangeCodeForToken ==
    /\ \E resp \in TokenResponses : TokenCall("exchange_code_for_token", resp)
    /\ UNCHANGED <<fetcherVars, csvVars, appVars, b_calls, b_elapsed>>

NextAuth == Authenticate \/ AuthenticateClientCredentials \/ ExchangeCodeForToken

SpecAuth == InitAuth /\ [][NextAuth]_vars

-----------------------------------------------------------------------------
(* C12: the token methods succeed exactly on a 200 answer with an access token *)

\* the token endpoint answered 200 with a JSON object that has an access token
AnsweredWithToken(resp) ==
    /\ resp.transport_ok
    /\ resp.status_code = 200
    /\ resp.json_ok
    /\ resp.body.t = "dict"
    /\ "access_token" \in DOMAIN resp.body.d

\* C12: a token method raises nothing; it returns True exactly when the token
\* endpoint answered 200 with an access token, and then the access token (and,
\* for the code exchange, the refresh token of the answer) is stored; in every
\* other case it returns False and both tokens are as they were
C12_TokenExactlyOn200 ==
    a_last # NoCall =>
        /\ ~a_last.raised
        /\ a_last.ret = AnsweredWithToken(a_last.resp)
        /\ a_last.ret =>
              /\ authenticator.access_token = a_last.resp.body.d["access_token"]
              /\ IF a_last.method = "exchange_code_for_token"
                    THEN authenticator.refresh_token =
                            (IF "refresh_token" \in DOMAIN a_last.resp.body.d
                                THEN a_last.resp.body.d["refresh_token"] ELSE None)
                 ELSE authenticator.refresh_token = a_last.before.refresh_token
        /\ ~a_last.ret => authenticator = a_last.before

\* a failed exchange after a successful one leaves both stored tokens in place
C12_Witness ==
    /\ a_last # NoCall
    /\ a_last.method = "exchange_code_for_token"
    /\ a_last.resp.status_code = 401
    /\ ~a_last.ret
    /\ authenticator.access_token = Str("tokA")
    /\ authenticator.refresh_token = Str("refA")

-----------------------------------------------------------------------------
(* authenticate_browser and its local listener *)

\* what the query of an inbound request holds
RequestKinds == {"code", "error", "both", "other"}

\* OAuthHandler.do_GET: what auth_code holds after a request of this kind
do_GET(auth_code, kind) ==
    CASE kind \in {"code", "both"} -> "code"
      [] kind = "error" -> "error"
      [] OTHER -> auth_code

\* a variant of the listener that keeps serving
serve_forever(listener) == "listening"

\* httpd.handle_request(): the listener returns after one request
handle_request(listener) == "stopped"

\* start_server: binding port 3001 fails while another listener holds it
start_server(calls) ==
    IF \E i \in DOMAIN calls : calls[i].listener = "listening"
        THEN "bind_failed" ELSE "listening"

\* one round of the wait loop
wait_loop(auth_code, elapsed) ==
    IF auth_code # "none" THEN "leave"
    ELSE IF elapsed > timeout THEN "return_false"
    ELSE "sleep"

\* a variant that exchanges whatever was captured
after_wait_always_exchange(auth_code) == "exchange"

\* after the loop: an error ends the call, a code is exchanged
after_wait(auth_code) ==
    IF auth_code = "error" THEN "return_false" ELSE "exchange"

\* a call of authenticate_browser: what its listener captured and handled,
\* where the call returned (exit), what the loop last read, whether it had
\* waited longer than the timeout, and how many token requests it sent
BrowserCall(listener) ==
    [auth_code |-> "none", listener |-> listener, handled |-> <<>>,
     exit |-> "running", ret |-> FALSE, read |-> "none", waited |-> FALSE,
     posts |-> 0]

Running == b_calls # <<>> /\ b_calls[Len(b_calls)].exit = "running"

\* authenticate_browser() is called: the listener thread starts
StartBrowserAuth ==
    /\ ~Running
    /\ Len(b_calls) < MaxCalls
    /\ b_calls' = Append(b_calls, BrowserCall(start_server(b_calls)))
    /\ b_elapsed' = 0
    /\ UNCHANGED <<fetcherVars, csvVars, appVars, authenticator, a_last>>

\* a request reaches port 3001 and the listener holding it handles the request
InboundRequest ==
    \E kind \in RequestKinds, i \in DOMAIN b_calls :
        /\ b_calls[i].listener = "listening"
        /\ b_calls' = [b_calls EXCEPT
                ![i].auth_code = do_GET(@, kind),
                ![i].handled = Append(@, kind),
                ![i].listener = handle_request(@)]
        /\ UNCHANGED <<fetcherVars, csvVars, appVars, authenticator, a_last, b_elapsed>>

Return(k, exit, ret, read, posts) ==
    /\ b_calls' = [b_calls EXCEPT ![k].exit = exit, ![k].ret = ret,
                                  ![k].read = read,
                                  ![k].waited = (b_elapsed > timeout),
                                  ![k].posts = posts]
    /\ b_elapsed' = 0

\* the running call goes once round its wait loop and, leaving it, returns
Poll ==
    /\ Running
    /\ LET k == Len(b_calls)
           auth_code == b_calls[k].auth_code
           round == wait_loop(auth_code, b_elapsed)
       IN  CASE round = "sleep" ->
                    /\ b_elapsed' = b_elapsed + 1
                    /\ UNCHANGED <<b_calls, authenticator, a_last>>
             [] round = "return_false" ->
                    /\ Return(k, "timeout", FALSE, auth_code, 0)
                    /\ UNCHANGED <<authenticator, a_last>>
             [] round = "leave" /\ after_wait(auth_code) = "return_false" ->
                    /\ Return(k, "error", FALSE, auth_code, 0)
                    /\ UNCHANGED <<authenticator, a_last>>
             [] round = "leave" /\ after_wait(auth_code) = "exchange" ->
                    /\ \E resp \in ExchangeResponses :
                          /\ TokenCall("exchange_code_for_token", resp)
                          /\ Return(k, "exchange",
                                    exchange_code_for_token(authenticator, resp).ret,
                                    auth_code, 1)
    /\ UNCHANGED <<fetcherVars, csvVars, appVars>>

NextBrowser == StartBrowserAuth \/ InboundRequest \/ Poll

SpecBrowser == InitAuth /\ [][NextBrowser]_vars

\* the thread of a running call keeps being scheduled
SpecBrowserFair == SpecBrowser /\ WF_vars(Poll)

-----------------------------------------------------------------------------
(* C13: the terminal states of authenticate_browser *)

\* the call returned True: the token of its exchange is stored
Success(c) == c.ret /\ c.read = "code" /\ c.posts = 1
\* the listener captured an error and the call returned False without a
\* token request
UserDenied(c) == ~c.ret /\ c.read = "error" /\ c.posts = 0
\* more than timeout seconds went by with neither code nor error captured
TimedOut(c) == ~c.ret /\ c.read = "none" /\ c.waited /\ c.posts = 0
\* a code was captured and the exchange was refused or failed
ExchangeFailed(c) == ~c.ret /\ c.read = "code" /\ c.posts = 1

Count(flags) == Cardinality({i \in DOMAIN flags : flags[i]})

\* the token stored by the last call is the one its exchange was answered with
LastTokenStored ==
    (b_calls # <<>> /\ b_calls[Len(b_calls)].ret) =>
        /\ a_last # NoCall
        /\ a_last.method = "exchange_code_for_token"
        /\ AnsweredWithToken(a_last.resp)
        /\ authenticator.access_token = a_last.resp.body.d["access_token"]

\* C13 as stated: a call that has returned is in exactly one of the three
\* states success, user-denied, timeout, and a token request is sent only
\* after a code was captured
C13_ThreeTerminalStates ==
    \A k \in DOMAIN b_calls :
        LET c == b_calls[k]
        IN  /\ c.exit # "running" =>
                  Count(<<Success(c), UserDenied(c), TimedOut(c)>>) = 1
            /\ c.posts > 0 => c.read = "code"

FourTerminalStates ==
    /\ \A k \in DOMAIN b_calls :
        LET c == b_calls[k]
        IN  /\ c.exit # "running" =>
                  Count(<<Success(c), UserDenied(c), TimedOut(c),
                          ExchangeFailed(c)>>) = 1
            /\ c.posts > 0 => c.read = "code"
    /\ LastTokenStored

\* C13, amended: every call returns, and a call that has returned is in
\* exactly one of the four states success, user-denied, timeout,
\* exchange-failed; a token request is sent only after a code was captured
C13_FourTerminalStates == []FourTerminalStates /\ (Running ~> ~Running)

\* a call that captured a code and whose exchange was refused
C13_Witness ==
    /\ b_calls # <<>>
    /\ b_calls[1].exit = "exchange"
    /\ ExchangeFailed(b_calls[1])
    /\ a_last.resp.status_code = 401

-----------------------------------------------------------------------------
(* C18: the listener handles one request *)

OneRequest ==
    \A k \in DOMAIN b_calls :
        LET c == b_calls[k]
        IN  /\ Len(c.handled) <= 1
            /\ c.listener = "stopped" <=> Len(c.handled) = 1
            /\ (c.handled # <<>> /\ c.handled[1] = "other" /\ c.exit # "running")
                  => (c.exit = "timeout" /\ TimedOut(c))

FirstRequestOther(k) ==
    /\ k \in DOMAIN b_calls
    /\ b_calls[k].handled # <<>>
    /\ b_calls[k].handled[1] = "other"

EndedInTimeout(k) == k \in DOMAIN b_calls /\ b_calls[k].exit = "timeout"

\* C18: a listener handles no second request and has stopped once it handled
\* one; a call whose listener got a first request with neither code nor error
\* ends, and ends in timeout
C18_ListenerHandlesOne ==
    /\ []OneRequest
    /\ \A k \in 1..MaxCalls :
          FirstRequestOther(k) ~> EndedInTimeout(k)

\* the first request had neither code nor error, and the call timed out
C18_Witness ==
    /\ b_calls # <<>>
    /\ b_calls[1].handled = <<"other">>
    /\ b_calls[1].listener = "stopped"
    /\ b_calls[1].exit = "timeout"

-----------------------------------------------------------------------------
(* app.py: the request handlers and the background fetch cycle *)

\* the environment: AUTODESK_CLIENT_ID and _SECRET set, AUTODESK_PROJECT_IDS set
Envs == [credentials : BOOLEAN, project_id : BOOLEAN]

\* datetime.now() as cycle k reads it
Time(k) == [t |-> "datetime", s |-> ToString(k), l |-> <<>>, d |-> <<>>]

\* last_update.isoformat()
isoformat(v) == Str(v.s)

\* request.args.get('code'), request.args.get('error')
HasCode(kind) == kind \in {"code", "both"}
HasError(kind) == kind \in {"error", "both"}

\* start_auth: the global authenticator after the request
start_auth(e, auth) ==
    IF ~e.credentials THEN auth ELSE AutodeskAuthenticator

\* a variant that starts a cycle whatever the exchange answers
auth_callback_any_exchange(kind, auth, resp) ==
    IF HasError(kind) \/ ~HasCode(kind) \/ auth = None
        THEN [authenticator |-> auth, exchanged |-> FALSE, start |-> FALSE]
    ELSE [authenticator |-> exchange_code_for_token(auth, resp).self,
          exchanged |-> TRUE, start |-> TRUE]

\* auth_callback: the authenticator after the request, whether the code was
\* exchanged, and whether is_loading is set and a thread started
auth_callback(kind, auth, resp) ==
    IF HasError(kind)
        THEN [authenticator |-> auth, exchanged |-> FALSE, start |-> FALSE]
    ELSE IF ~HasCode(kind)
        THEN [authenticator |-> auth, exchanged |-> FALSE, start |-> FALSE]
    ELSE IF auth = None
        THEN [authenticator |-> auth, exchanged |-> FALSE, start |-> FALSE]
    ELSE [authenticator |-> exchange_code_for_token(auth, resp).self,
          exchanged |-> TRUE,
          start |-> exchange_code_for_token(auth, resp).ret]

\* a thread running load_forms_data_background: where it is, the path it
\* took, the writes it still has to do and those it did, the forms it
\* fetched, the token its callback obtained and the token it built the
\* client with
Thread(token) ==
    [pc |-> "begin", path |-> "", todo |-> <<>>, written |-> {}, forms |-> <<>>,
     exchanged |-> token, used |-> <<>>]

\* a variant in which an empty result also stamps last_update
writes_empty_stamps(path) ==
    CASE path = "non_empty" -> <<"forms_data", "last_update", "error_message", "is_loading">>
      [] path = "empty" -> <<"forms_data", "last_update", "error_message", "is_loading">>
      [] OTHER -> <<"error_message", "is_loading">>

\* a variant in which the path without project id returns early
writes_early_return(path) ==
    CASE path = "non_empty" -> <<"forms_data", "last_update", "error_message", "is_loading">>
      [] path = "empty" -> <<"forms_data", "error_message", "is_loading">>
      [] path = "no_project" -> <<"error_message">>
      [] OTHER -> <<"error_message", "is_loading">>

\* the globals a cycle assigns on each of its paths, in order
writes(path) ==
    CASE path = "non_empty" -> <<"forms_data", "last_update", "error_message", "is_loading">>
      [] path = "empty" -> <<"forms_data", "error_message", "is_loading">>
      [] path = "no_token" -> <<"error_message", "is_loading">>
      [] path = "no_project" -> <<"error_message", "is_loading">>
      [] path = "exception" -> <<"error_message", "is_loading">>

\* what a cycle assigns to error_message on each path
error_of(path) ==
    CASE path = "non_empty" -> None
      [] path = "empty" -> Str("No forms found in project")
      [] path = "no_token" -> Str("No valid authentication token")
      [] path = "no_project" -> Str("No project ID configured")
      [] path = "exception" -> Str("str(e)")

\* the first tests of a cycle: which path they take ("": on to the fetch)
first_tests(auth, e) ==
    IF auth = None \/ ~truthy(auth.access_token) THEN "no_token"
    ELSE IF ~e.project_id THEN "no_project"
    ELSE ""

\* what get_all_forms can hand to a cycle using this token
LoadedForm == Dict(("id" :> Str("f1")) @@ ("template_name" :> Str("Daily")))
FetchResults(token) == IF truthy(token) THEN {<<>>, <<LoadedForm>>} ELSE {<<>>}

\* the application has been started in some environment
InitApp ==
    /\ FetcherIdle
    /\ CsvIdle
    /\ AuthIdle
    /\ AppIdle
    /\ env \in Envs

\* one more request changes the state of the application: which handler
\* took it, what its query held and what the token endpoint answered
Handled(handler, kind, resp) ==
    /\ handled.n < MaxRequests
    /\ handled' = [n |-> handled.n + 1, handler |-> handler, kind |-> kind,
                   resp |-> resp]

\* GET /auth/start
StartAuth ==
    /\ Handled("start_auth", "none", NoResponse)
    /\ authenticator' = start_auth(env, authenticator)
    /\ UNCHANGED <<fetcherVars, csvVars, a_last, b_calls, b_elapsed, last_update,
                   is_loading, error_message, threads, env, status_out, json_out,
                   wrote>>

\* GET /auth/callback
AuthCallback ==
    \E kind \in RequestKinds, resp \in ExchangeResponses :
        LET r == auth_callback(kind, authenticator, resp)
        IN  /\ Handled("auth_callback", kind, IF r.exchanged THEN resp ELSE NoResponse)
            /\ authenticator' = r.authenticator
            /\ IF r.start
                  THEN /\ is_loading' = TRUE
                       /\ threads' = Append(threads, Thread(r.authenticator.access_token))
               ELSE UNCHANGED <<is_loading, threads>>
            /\ UNCHANGED <<fetcherVars, csvVars, a_last, b_calls, b_elapsed,
                           last_update, error_message, env, status_out, json_out,
                           wrote>>

\* GET /api/status
GetStatus ==
    /\ handled' = [handled EXCEPT !.handler = "get_status", !.kind = "none",
                                  !.resp = NoResponse]
    /\ status_out' = [answered |-> TRUE,
                      is_loading |-> is_loading,
                      forms_count |-> Len(forms_data),
                      last_update |-> IF last_update # None
                                        THEN isoformat(last_update) ELSE None,
                      error_message |-> error_message,
                      wrote |-> wrote]
    /\ json_out' = NoJson
    /\ csv_out' = NoCsv
    /\ UNCHANGED <<fetcherVars, forms_data, authVars, last_update, is_loading,
                   error_message, threads, env, wrote>>

\* a cycle makes its first tests
Begin ==
    \E k \in DOMAIN threads :
        LET path == first_tests(authenticator, env)
        IN  /\ threads[k].pc = "begin"
            /\ threads' = [threads EXCEPT
                    ![k].pc = IF path = "" THEN "fetch" ELSE "write",
                    ![k].path = path,
                    ![k].todo = IF path = "" THEN <<>> ELSE writes(path)]
            /\ UNCHANGED <<fetcherVars, csvVars, authVars, last_update, is_loading,
                           error_message, env, status_out, json_out, handled, wrote>>

\* a cycle builds its client with the token of the global authenticator and
\* calls get_all_forms; an exception may leave the try block
Fetch ==
    \E k \in DOMAIN threads :
        /\ threads[k].pc = "fetch"
        /\ \/ \E forms \in FetchResults(authenticator.access_token) :
                threads' = [threads EXCEPT
                    ![k].pc = "write",
                    ![k].path = IF forms # <<>> THEN "non_empty" ELSE "empty",
                    ![k].todo = writes(IF forms # <<>> THEN "non_empty" ELSE "empty"),
                    ![k].forms = forms,
                    ![k].used = <<authenticator.access_token>>]
           \/ threads' = [threads EXCEPT
                    ![k].pc = "write",
                    ![k].path = "exception",
                    ![k].todo = writes("exception"),
                    ![k].used = <<authenticator.access_token>>]
        /\ UNCHANGED <<fetcherVars, csvVars, authVars, last_update, is_loading,
                       error_message, env, status_out, json_out, handled, wrote>>

\* a cycle assigns the next global of its path
Write ==
    \E k \in DOMAIN threads :
        /\ threads[k].pc = "write"
        /\ LET g == Head(threads[k].todo)
               rest == Tail(threads[k].todo)
           IN  /\ forms_data' = IF g = "forms_data" THEN threads[k].forms ELSE forms_data
               /\ last_update' = IF g = "last_update" THEN Time(k) ELSE last_update
               /\ error_message' = IF g = "error_message"
                                      THEN error_of(threads[k].path) ELSE error_message
               /\ is_loading' = IF g = "is_loading" THEN FALSE ELSE is_loading
               /\ wrote' = IF g \in DOMAIN wrote
                              THEN [wrote EXCEPT ![g] = k] ELSE wrote
               /\ threads' = [threads EXCEPT
                        ![k].todo = rest,
                        ![k].written = @ \cup {g},
                        ![k].pc = IF rest = <<>> THEN "done" ELSE "write"]
        /\ UNCHANGED <<fetcherVars, csv_out, authVars, env, status_out, json_out,
                       handled>>

Cycle == Begin \/ Fetch \/ Write

NextApp == StartAuth \/ AuthCallback \/ GetStatus \/ Begin \/ Fetch \/ Write

SpecApp == InitApp /\ [][NextApp]_vars

\* a started thread keeps running, and its fetch returns
SpecAppFair == SpecApp /\ WF_vars(Cycle)

-----------------------------------------------------------------------------
(* C14: one fetch cycle at a time *)

InProgress == {k \in DOMAIN threads : threads[k].pc # "done"}

\* C14 as stated: at no time are two fetch threads started and not finished
C14_AtMostOneCycle == Cardinality(InProgress) <= 1

-----------------------------------------------------------------------------
(* C15: a successful fetch replaces the data in one piece *)

\* C15 as stated: no answer of /api/status shows the forms of a successful
\* cycle k together with the last_update or the error message that an
\* earlier cycle wrote
C15_AtomicReplace ==
    status_out.answered =>
        LET k == status_out.wrote.forms_data
        IN  (k > 0 /\ threads[k].path = "non_empty") =>
                /\ \A j \in 1..(k - 1) : status_out.last_update # Str(ToString(j))
                /\ status_out.wrote.error_message \notin 1..(k - 1)

-----------------------------------------------------------------------------
(* C16: what starts a cycle *)

CallbackStep ==
    handled'.n = handled.n + 1 /\ handled'.handler = "auth_callback"

\* the callback carries a code and no error, an authenticator exists, and the
\* token endpoint answers the exchange with a token
GoodCallback ==
    /\ CallbackStep
    /\ handled'.kind = "code"
    /\ authenticator # None
    /\ AnsweredWithToken(handled'.resp)

\* C16: a step starts a thread or raises is_loading only if it is a callback
\* with a code, an authenticator and a successful exchange, and such a step
\* does both; every other callback starts no thread and leaves forms_data,
\* last_update, is_loading and error_message as they are
C16_OnlyGoodCallbackStarts ==
    [][/\ (Len(threads') > Len(threads) \/ (~is_loading /\ is_loading'))
            => GoodCallback
       /\ GoodCallback => (Len(threads') = Len(threads) + 1 /\ is_loading')
       /\ (CallbackStep /\ ~GoodCallback)
            => UNCHANGED <<forms_data, last_update, is_loading, error_message,
                           threads>>]_vars

\* a callback with a code, after an auth-start, was answered with a token:
\* is_loading is True and its thread is about to run
C16_Witness ==
    /\ handled.n = 2
    /\ handled.handler = "auth_callback"
    /\ handled.kind = "code"
    /\ AnsweredWithToken(handled.resp)
    /\ Len(threads) = 1
    /\ threads[1].pc = "begin"
    /\ is_loading

-----------------------------------------------------------------------------
(* C17: every cycle ends by clearing is_loading *)

\* C17: the step in which a cycle ends assigns False to is_loading, on every
\* path, and an ended cycle does nothing more; is_loading being True leads
\* to is_loading being False
C17_EndsNotLoading ==
    /\ [][\A k \in DOMAIN threads :
            /\ (threads[k].pc # "done" /\ threads'[k].pc = "done")
                  => (~is_loading' /\ threads[k].todo = <<"is_loading">>
                      /\ threads[k].path \in {"no_token", "no_project", "non_empty",
                                              "empty", "exception"})
            /\ threads[k].pc = "done" => threads'[k] = threads[k]]_vars
    /\ (is_loading ~> ~is_loading)

\* cycles have ended on the path without project id
C17_Witness ==
    /\ threads # <<>>
    /\ threads[1].pc = "done"
    /\ threads[1].path = "no_project"
    /\ error_message = Str("No project ID configured")
    /\ ~is_loading

-----------------------------------------------------------------------------
(* C19: is_loading while a cycle is in progress *)

\* C19 as stated: while a cycle is in progress is_loading is True
C19_LoadingWhileInProgress == InProgress # {} => is_loading

-----------------------------------------------------------------------------
(* C20: the token a cycle fetches with *)

\* C20 as stated: no cycle takes the path 'No valid authentication token',
\* and a cycle builds its client with the token its callback obtained
C20_OwnToken ==
    \A k \in DOMAIN threads :
        /\ threads[k].path # "no_token"
        /\ threads[k].used # <<>> => threads[k].used = <<threads[k].exchanged>>

-----------------------------------------------------------------------------
(* C21: what a completed cycle does to the shared state *)

\* the globals a cycle has assigned when it ends, by outcome
Assigned(path) ==
    CASE path = "non_empty" -> {"forms_data", "last_update", "error_message", "is_loading"}
      [] path = "empty" -> {"forms_data", "error_message", "is_loading"}
      [] OTHER -> {"error_message", "is_loading"}

\* the outcomes that assign a fixed message
MessageOf(path) ==
    CASE path = "empty" -> Str("No forms found in project")
      [] path = "no_token" -> Str("No valid authentication token")
      [] path = "no_project" -> Str("No project ID configured")
      [] OTHER -> None

\* thread k takes a step
Steps(k) == threads'[k] # threads[k]

\* C21: a cycle that has ended has assigned exactly the globals of its
\* outcome; a non-empty result puts the fetched forms into forms_data, a time
\* into last_update and None into error_message; an empty result puts [] into
\* forms_data and 'No forms found in project' into error_message and leaves
\* last_update; the other outcomes put their message into error_message and
\* leave forms_data and last_update
C21_CycleOutcome ==
    /\ [](\A k \in DOMAIN threads :
            threads[k].pc = "done" => threads[k].written = Assigned(threads[k].path))
    /\ [][\A k \in DOMAIN threads : Steps(k) =>
            LET path == threads'[k].path
                now == threads'[k].written \ threads[k].written
            IN  /\ now \subseteq Assigned(path)
                /\ IF "forms_data" \in now
                      THEN forms_data' = (IF path = "non_empty"
                                            THEN threads[k].forms ELSE <<>>)
                           /\ (path = "non_empty" => threads[k].forms # <<>>)
                   ELSE forms_data' = forms_data
                /\ IF "last_update" \in now
                      THEN last_update' # None /\ last_update'.t = "datetime"
                   ELSE last_update' = last_update
                /\ IF "error_message" \in now
                      THEN /\ path # "exception" => error_message' = MessageOf(path)
                           /\ path = "exception" => error_message'.t = "str"
                   ELSE error_message' = error_message]_vars

\* a second cycle with an empty result after a first that loaded forms: the
\* forms are gone, last_update is still that of the first cycle
C21_Witness ==
    /\ Len(threads) = 2
    /\ threads[1].pc = "done" /\ threads[1].path = "non_empty"
    /\ threads[2].pc = "done" /\ threads[2].path = "empty"
    /\ wrote.forms_data = 2
    /\ forms_data = <<>>
    /\ last_update = [t |-> "datetime", s |-> "1", l |-> <<>>, d |-> <<>>]
    /\ error_message = Str("No forms found in project")

-----------------------------------------------------------------------------
(* get_forms_for_template against a server that pages a fixed collection *)

\* the collection sizes: around each multiple of the page size
CollectionSizes ==
    {n \in 0..(MaxPages * limit - 1) : n % limit \in {0, 1, 150, limit - 1}}

\* the server's answer to a request with params limit and offset: the rows
\* offset+1 .. offset+limit of its collection, in its wrapping
Serve(c, lim, off) ==
    LET last == IF off + lim < Len(c.forms) THEN off + lim ELSE Len(c.forms)
        rows == SubSeq(c.forms, off + 1, last)
    IN  Answer("rows", rows, OkResponse(Wrap(c.shape, rows)))

\* get_forms_for_template is called; the server holds some collection
InitCollection ==
    /\ \E t \in {T1, T2} : InitCall("get_forms_for_template", "forms", <<t>>, 1)
    /\ p_body = None /\ p_L = <<>> /\ p_shape = ""
    /\ \E n \in CollectionSizes, sh \in Shapes :
          collection = [forms |-> [i \in 1..n |-> Row(i)], shape |-> sh]
    /\ OtherIdle

\* one pass of the while loop, the request answered from the collection
GetFormsPageOfCollection ==
    /\ pc = "forms"
    /\ LET a == Serve(collection, limit, offset)
           step == get_forms_for_template_page(tpl_forms, offset, a.resp)
       IN  /\ requests' = Append(requests,
                  Request("forms", dict_get(templates[ti], "id", None), <<limit, offset>>))
           /\ served' = Append(served, Seen(a))
           /\ tpl_forms' = step.all_forms
           /\ offset' = step.offset
           /\ IF step.again THEN UNCHANGED <<pc, result>>
              ELSE pc' = "done" /\ result' = step.all_forms
    /\ UNCHANGED <<call, templates, ti, all_forms, alt_forms, fetched, parseVars,
                   collection, otherVars>>

SpecCollection == InitCollection /\ [][GetFormsPageOfCollection]_vars

\* the call keeps running
SpecCollectionFair == SpecCollection /\ WF_vars(GetFormsPageOfCollection)

-----------------------------------------------------------------------------
(* C22: paging through a collection of N forms *)

\* C22: the call ends; when it has ended it has sent floor(N/200)+1 requests
\* and returns the N forms of the collection in the server's order, each once
C22_AllFormsOnce ==
    /\ [](pc = "done" =>
            /\ Len(requests) = (Len(collection.forms) \div 200) + 1
            /\ result = collection.forms
            /\ \A i, j \in DOMAIN result : i # j => result[i] # result[j])
    /\ <>(pc = "done")

\* 400 forms: pages of 200, 200 and 0 rows, three requests
C22_Witness ==
    /\ pc = "done"
    /\ Len(collection.forms) = 400
    /\ Len(requests) = 3
    /\ served[3].rows = <<>>
    /\ Len(result) = 400

-----------------------------------------------------------------------------
(* C23: forms without a nested formTemplate id on the alternative path *)

\* C23: in the alternative-endpoint path a form without a nested formTemplate
\* id carries 'Unknown Template' and 'unknown', whatever the template list holds
C23_NoNestedIdUnmatched ==
    (pc = "done" /\ AltRequests # {}) =>
        /\ Len(result) = Len(alt_forms)
        /\ \A k \in 1..Len(alt_forms) :
              (alt_forms[k].t = "dict" /\ ~HasNestedId(alt_forms[k])) =>
                  /\ result[k].d["template_name"] = Str("Unknown Template")
                  /\ result[k].d["template_type"] = Str("unknown")

-----------------------------------------------------------------------------
(* C24: the listener of a call that timed out *)

\* C24: once a call has ended in timeout its listener captures no redirect,
\* and the listener of every later call holds the port
C24_ListenerEndsWithCall ==
    \A i \in DOMAIN b_calls :
        b_calls[i].exit = "timeout" =>
            /\ b_calls[i].auth_code = "none"
            /\ \A j \in DOMAIN b_calls : j > i => b_calls[j].listener # "bind_failed"

-----------------------------------------------------------------------------
(* app.py: the handlers that only answer *)

\* jsonify({...}) of load_data and get_forms_data
Json(handler, status_, message, auth_url, data) ==
    [handler |-> handler, status |-> status_, message |-> message,
     auth_url |-> auth_url, data |-> data]

\* all([client_id, client_secret, project_ids[0]])
all_set(e) == e.credentials /\ e.project_id

\* a variant that looks at the environment first
load_data_env_first(loading, e) ==
    IF ~all_set(e)
        THEN Json("load_data", "error", "Missing required environment variables", "", <<>>)
    ELSE IF loading
        THEN Json("load_data", "error", "Data is already being loaded", "", <<>>)
    ELSE Json("load_data", "auth_required",
              "Authentication required. Please click the authentication link.",
              "/auth/start", <<>>)

\* load_data: the answer of POST /api/load-data
load_data(loading, e) ==
    IF loading
        THEN Json("load_data", "error", "Data is already being loaded", "", <<>>)
    ELSE IF ~all_set(e)
        THEN Json("load_data", "error", "Missing required environment variables", "", <<>>)
    ELSE Json("load_data", "auth_required",
              "Authentication required. Please click the authentication link.",
              "/auth/start", <<>>)

\* len() of a list or a dict
len(v) == IF v.t = "list" THEN Len(v.l) ELSE Cardinality(DOMAIN v.d)

\* form_info: the entries of a form that the answer carries, by get() with
\* its defaults (the other entries are copied the same way as id)
form_info(form) ==
    [id |-> dict_get(form, "id", None),
     name |-> dict_get(form, "name", None),
     templateName |-> dict_get(form, "template_name", None),
     templateType |-> dict_get(form, "template_type", None),
     customFieldsCount |-> len(dict_get(form, "customValues", List(<<>>))),
     tabularDataCount |-> len(dict_get(form, "tabularValues", EmptyDict))]

\* get_forms_data: the answer of GET /api/forms-data
get_forms_data(fd) ==
    IF fd = <<>> THEN Json("get_forms_data", "error", "No data loaded", "", <<>>)
    ELSE Json("get_forms_data", "success", "", "",
              [k \in 1..Len(fd) |-> form_info(fd[k])])

\* POST /api/load-data
LoadData ==
    /\ json_out' = load_data(is_loading, env)
    /\ status_out' = NoStatus
    /\ csv_out' = NoCsv
    /\ UNCHANGED <<fetcherVars, forms_data, authVars, last_update, is_loading,
                   error_message, threads, env, handled, wrote>>

\* GET /api/forms-data
GetFormsData ==
    /\ json_out' = get_forms_data(forms_data)
    /\ status_out' = NoStatus
    /\ csv_out' = NoCsv
    /\ UNCHANGED <<fetcherVars, forms_data, authVars, last_update, is_loading,
                   error_message, threads, env, handled, wrote>>

\* every handler of the application and the fetch cycles
NextHandlers ==
    StartAuth \/ AuthCallback \/ GetStatus \/ LoadData \/ GetFormsData \/ ExportCsv
        \/ Begin \/ Fetch \/ Write

SpecHandlers == InitApp /\ [][NextHandlers]_vars

-----------------------------------------------------------------------------
(* C25: the handlers that only answer *)

\* a request of /api/load-data, /api/status, /api/forms-data or
\* /api/export-csv has been answered
AnswerStep == <<status_out, json_out, csv_out>>' # <<status_out, json_out, csv_out>>

\* C25: answering one of the four requests leaves forms_data, last_update,
\* is_loading, error_message and the authenticator as they were and starts
\* no cycle; load-data answers 'Data is already being loaded' exactly when
\* is_loading is set, and otherwise that authentication is required or that
\* configuration is missing
C25_HandlersOnlyAnswer ==
    [][AnswerStep =>
          /\ UNCHANGED <<forms_data, last_update, is_loading, error_message,
                         authenticator, threads>>
          /\ json_out'.handler = "load_data" =>
                /\ (json_out'.status = "error"
                        /\ json_out'.message = "Data is already being loaded")
                      <=> is_loading
                /\ ~is_loading =>
                      \/ json_out'.status = "auth_required" /\ json_out'.auth_url = "/auth/start"
                      \/ json_out'.status = "error"
                            /\ json_out'.message = "Missing required environment variables"]_vars

\* load-data was refused while a cycle was running without a project id
C25_Witness ==
    /\ is_loading
    /\ ~env.project_id
    /\ InProgress # {}
    /\ json_out.handler = "load_data"
    /\ json_out.message = "Data is already being loaded"

====
